---- MODULE Spec2Model ----
(***************************************************************************)
(* cw1-subkeys helpers (contracts/cw1-subkeys/helpers.ts).                 *)
(*                                                                         *)
(* Three parts of the file are modelled, each with its own specification:  *)
(*   Spec        the CW1 instance returned by use(contractAddress): its    *)
(*               two queries and five executes, against the remote         *)
(*               contract (the contract itself is not part of helpers.ts;  *)
(*               its handlers are written from the specification text);    *)
(*   SpecWallet  useOptions(...).setup / recoverMnemonic over the keyfile; *)
(*   SpecFactory CW1(client).upload / instantiate.                         *)
(***************************************************************************)
EXTENDS Integers, Sequences, FiniteSets, TLC

VARIABLES
    contract,   \* remote state of the bound contract instance
    last,       \* the last call made on the CW1 instance and its outcome
    calledInc,  \* spenders increaseAllowance has been called for
    froze,      \* a freeze() call has been accepted
    before,     \* the contract's state when the last call was made
    roundTrip,  \* the last call is a decreaseAllowance made right after an
                \* accepted increaseAllowance of the same spender and coin
    origin,     \* the contract's state before that increaseAllowance
    fs,         \* the local file system: path -> keyfile state
    funded,     \* identities that have an account on chain
    calls,      \* the setup / recoverMnemonic calls in flight or just ended
    pc,         \* position of the running upload() call
    resp,       \* the HTTP response upload() is holding
    chain,      \* code-storage and instantiate transactions seen by the network
    flast       \* the last factory call and its outcome

vars == <<contract, last, calledInc, froze, before, roundTrip, origin, fs, funded, calls, pc, resp, chain, flast>>
cvars == <<contract, last, calledInc, froze, before, roundTrip, origin>>
wvars == <<fs, funded, calls>>
fvars == <<pc, resp, chain, flast>>

(***************************************************************************)
(* Bounds of the model.                                                    *)
(***************************************************************************)
MaxBalance == 2
MaxMsgs == 2
MaxUploads == 3
MaxInstances == 2

\* JavaScript values: an omitted optional argument, and truthiness of a string
Undefined == "undefined"
Truthy(s) == s # Undefined /\ s # ""

Addr == {"a1", "a2"}
Denom == {"x", "y"}
senderAddress == "a1"
contractAddress == "c1"
\* the amounts a caller asks for
Amounts == {1, 2}
\* an Expiration a caller may pass; how the contract merges it is the
\* contract's policy and is not modelled
Expirations == {"at_height"}

\* duplicate-free lists of addresses, the empty list included
AdminLists ==
    {<<>>} \cup {<<a>> : a \in Addr}
           \cup {p \in Addr \X Addr : p[1] # p[2]}

RECURSIVE SeqsUpTo(_, _)
SeqsUpTo(S, n) ==
    IF n = 0 THEN {<<>>}
    ELSE LET shorter == SeqsUpTo(S, n - 1)
         IN  shorter \cup {Append(s, e) : s \in shorter, e \in S}

\* CosmosMsg: only bank.send, here of one coin of amount 1 to one recipient
SendMsgs == [to_address : {"a2"}, denom : Denom, amount : {1}]
MsgLists == SeqsUpTo(SendMsgs, MaxMsgs)

(***************************************************************************)
(* The remote contract, from the specification text (sections 3, 4.1, 7).  *)
(* A handler returns [ok, st]: whether the transaction was accepted and    *)
(* the state it leaves; a rejected transaction leaves the state it found.  *)
(***************************************************************************)
InRange(s, e) == \E i \in 1..Len(s) : s[i] = e
IsAdmin(st, who) == InRange(st.admins, who)
Accept(st) == [ok |-> TRUE, st |-> st]
Reject(st) == [ok |-> FALSE, st |-> st]

HandleFreeze(st, sender) ==
    IF IsAdmin(st, sender) /\ st.mutable
    THEN Accept([st EXCEPT !.mutable = FALSE])
    ELSE Reject(st)

HandleUpdateAdmins(st, sender, list) ==
    IF IsAdmin(st, sender) /\ st.mutable
    THEN Accept([st EXCEPT !.admins = list])
    ELSE Reject(st)

HandleIncreaseAllowance(st, sender, spender, coin, expires) ==
    IF IsAdmin(st, sender)
    THEN Accept([st EXCEPT !.allowances[spender][coin.denom] = @ + coin.amount])
    ELSE Reject(st)

HandleDecreaseAllowance(st, sender, spender, coin, expires) ==
    IF IsAdmin(st, sender) /\ st.allowances[spender][coin.denom] >= coin.amount
    THEN Accept([st EXCEPT !.allowances[spender][coin.denom] = @ - coin.amount])
    ELSE Reject(st)

\* one bank.send of the batch: an admin may send anything; any other sender
\* spends its allowance, and the send is refused when that does not cover it
ApplySend(st, sender, m) ==
    IF IsAdmin(st, sender) THEN Accept(st)
    ELSE IF st.allowances[sender][m.denom] < m.amount THEN Reject(st)
    ELSE Accept([st EXCEPT !.allowances[sender][m.denom] = @ - m.amount])

RECURSIVE ApplyAll(_, _, _)
ApplyAll(st, sender, msgs) ==
    IF msgs = <<>> THEN Accept(st)
    ELSE LET r == ApplySend(st, sender, Head(msgs))
         IN  IF r.ok THEN ApplyAll(r.st, sender, Tail(msgs)) ELSE r

\* the whole batch is one transaction: all of it or none of it
HandleExecute(st, sender, msgs) ==
    LET r == ApplyAll(st, sender, msgs)
    IN  IF r.ok THEN r ELSE Reject(st)

RemoteExecute(st, sender, req) ==
    CASE req.type = "freeze" -> HandleFreeze(st, sender)
      [] req.type = "update_admins" -> HandleUpdateAdmins(st, sender, req.admins)
      [] req.type = "increase_allowance" ->
            HandleIncreaseAllowance(st, sender, req.spender, req.amount, req.expires)
      [] req.type = "decrease_allowance" ->
            HandleDecreaseAllowance(st, sender, req.spender, req.amount, req.expires)
      [] req.type = "execute" -> HandleExecute(st, sender, req.msgs)

\* a query answers [ok, data]; an allowance query for something that is not
\* an address is refused
RemoteQuery(st, req) ==
    CASE req.type = "admin_list" ->
            [ok |-> TRUE, data |-> [admins |-> st.admins, mutable |-> st.mutable]]
      [] req.type = "allowance" ->
            IF req.spender \in Addr
            THEN [ok |-> TRUE, data |-> [balance |-> st.allowances[req.spender]]]
            ELSE [ok |-> FALSE, data |-> "invalid address"]

(***************************************************************************)
(* The CW1 instance (helpers.ts, use).  Each method is the list of remote  *)
(* requests it sends to contractAddress; the methods send exactly one.     *)
(***************************************************************************)
\* the requests as plausible slips would send them; the properties below
\* must tell each from the request the method really sends
allowanceQueryOwnOnly(address) ==
    <<[to |-> contractAddress, type |-> "allowance", spender |-> senderAddress]>>

allowanceQueryNullish(address) ==
    LET spender == IF address # Undefined THEN address ELSE senderAddress
    IN  <<[to |-> contractAddress, type |-> "allowance", spender |-> spender]>>

freezeCallAsExecute == <<[to |-> contractAddress, type |-> "execute", msgs |-> <<>>]>>

updateAdminsCallKeepingSender(list) ==
    LET kept == IF InRange(list, senderAddress) THEN list ELSE <<senderAddress>> \o list
    IN  <<[to |-> contractAddress, type |-> "update_admins", admins |-> kept]>>

executeCallPerMsg(msgs) ==
    [i \in 1..Len(msgs) |->
        [to |-> contractAddress, type |-> "execute", msgs |-> <<msgs[i]>>]]

increaseAllowanceCallTwice(spender, amount, expires) ==
    LET req == [to |-> contractAddress, type |-> "increase_allowance",
                spender |-> spender, amount |-> amount, expires |-> expires]
    IN  <<req, req>>

decreaseAllowanceCallAsIncrease(spender, amount, expires) ==
    <<[to |-> contractAddress, type |-> "increase_allowance",
       spender |-> spender, amount |-> amount, expires |-> expires]>>

allowanceQuery(address) ==
    LET spender == IF Truthy(address) THEN address ELSE senderAddress
    IN  <<[to |-> contractAddress, type |-> "allowance", spender |-> spender]>>

adminsQuery == <<[to |-> contractAddress, type |-> "admin_list"]>>

freezeCall == <<[to |-> contractAddress, type |-> "freeze"]>>

updateAdminsCall(list) ==
    <<[to |-> contractAddress, type |-> "update_admins", admins |-> list]>>

executeCall(msgs) ==
    <<[to |-> contractAddress, type |-> "execute", msgs |-> msgs]>>

increaseAllowanceCall(spender, amount, expires) ==
    <<[to |-> contractAddress, type |-> "increase_allowance",
       spender |-> spender, amount |-> amount, expires |-> expires]>>

decreaseAllowanceCall(spender, amount, expires) ==
    <<[to |-> contractAddress, type |-> "decrease_allowance",
       spender |-> spender, amount |-> amount, expires |-> expires]>>

\* await client.execute(...) for each request in turn; a rejection throws and
\* nothing after it is sent
RECURSIVE Submit(_, _)
Submit(st, reqs) ==
    IF reqs = <<>> THEN Accept(st)
    ELSE LET r == RemoteExecute(st, senderAddress, Head(reqs))
         IN  IF r.ok THEN Submit(r.st, Tail(reqs)) ELSE r

Outcome(r) == IF r.ok THEN "ok" ELSE "err"

NoResponse == "none"

Called(op, args, wire, result, response) ==
    [op |-> op, args |-> args, wire |-> wire, result |-> result, response |-> response]

\* a method that awaits client.queryContractSmart and returns its result
Querying(op, args, wire) ==
    LET r == RemoteQuery(contract, wire[1])
    IN  /\ last' = Called(op, args, wire, Outcome(r), r.data)
        /\ before' = contract
        /\ UNCHANGED contract

\* a method that awaits client.execute and returns result.transactionHash
Mutating(op, args, wire) ==
    LET r == Submit(contract, wire)
    IN  /\ contract' = r.st
        /\ last' = Called(op, args, wire, Outcome(r), NoResponse)
        /\ before' = contract

NoRoundTrip ==
    /\ roundTrip' = FALSE
    /\ origin' = contract

allowance ==
    \E address \in Addr \cup {Undefined, ""} :
        /\ Querying("allowance", <<address>>, allowanceQuery(address))
        /\ NoRoundTrip
        /\ UNCHANGED <<calledInc, froze>>

admins ==
    /\ Querying("admins", <<>>, adminsQuery)
    /\ NoRoundTrip
    /\ UNCHANGED <<calledInc, froze>>

freeze ==
    /\ Mutating("freeze", <<>>, freezeCall)
    /\ froze' = (froze \/ last'.result = "ok")
    /\ NoRoundTrip
    /\ UNCHANGED calledInc

updateAdmins ==
    \E list \in AdminLists :
        /\ Mutating("updateAdmins", <<list>>, updateAdminsCall(list))
        /\ NoRoundTrip
        /\ UNCHANGED <<calledInc, froze>>

execute ==
    \E msgs \in MsgLists :
        /\ Mutating("execute", <<msgs>>, executeCall(msgs))
        /\ NoRoundTrip
        /\ UNCHANGED <<calledInc, froze>>

increaseAllowance ==
    \E spender \in Addr, denom \in Denom, amount \in Amounts,
       expires \in Expirations \cup {Undefined} :
        /\ contract.allowances[spender][denom] + amount <= MaxBalance
        /\ Mutating("increaseAllowance", <<spender, denom, amount, expires>>,
                    increaseAllowanceCall(spender, [denom |-> denom, amount |-> amount], expires))
        /\ calledInc' = calledInc \cup {spender}
        /\ NoRoundTrip
        /\ UNCHANGED froze

decreaseAllowance ==
    \E spender \in Addr, denom \in Denom, amount \in Amounts,
       expires \in Expirations \cup {Undefined} :
        /\ Mutating("decreaseAllowance", <<spender, denom, amount, expires>>,
                    decreaseAllowanceCall(spender, [denom |-> denom, amount |-> amount], expires))
        /\ roundTrip' = (/\ last.op = "increaseAllowance"
                         /\ last.result = "ok"
                         /\ last.args[1] = spender
                         /\ last.args[2] = denom
                         /\ last.args[3] = amount)
        /\ origin' = IF roundTrip' THEN before ELSE contract
        /\ UNCHANGED <<calledInc, froze>>

NoCall == Called("none", <<>>, <<>>, "ok", NoResponse)

\* the instance as instantiate(codeId, {admins, mutable}, label) leaves it
InitContract ==
    /\ \E list \in AdminLists, m \in BOOLEAN :
          contract = [admins |-> list, mutable |-> m,
                      allowances |-> [a \in Addr |-> [d \in Denom |-> 0]]]
    /\ last = NoCall
    /\ calledInc = {}
    /\ froze = FALSE
    /\ before = contract
    /\ roundTrip = FALSE
    /\ origin = contract

IdleContract ==
    /\ contract = [admins |-> <<>>, mutable |-> FALSE,
                   allowances |-> [a \in Addr |-> [d \in Denom |-> 0]]]
    /\ last = NoCall
    /\ calledInc = {}
    /\ froze = FALSE
    /\ before = contract
    /\ roundTrip = FALSE
    /\ origin = contract

IdleWallet ==
    /\ fs = <<>>
    /\ funded = {}
    /\ calls = <<>>

NoResp == [settled |-> FALSE, status |-> 0, data |-> "-"]
NoFactoryCall == [op |-> "none", status |-> 0, txs |-> 0, result |-> "-", value |-> 0]

IdleFactory ==
    /\ pc = "idle"
    /\ resp = NoResp
    /\ chain = [codes |-> <<>>, storeTxs |-> 0, instances |-> <<>>]
    /\ flast = NoFactoryCall

Init == InitContract /\ IdleWallet /\ IdleFactory

Next ==
    \/ allowance /\ UNCHANGED <<wvars, fvars>>
    \/ admins /\ UNCHANGED <<wvars, fvars>>
    \/ freeze /\ UNCHANGED <<wvars, fvars>>
    \/ updateAdmins /\ UNCHANGED <<wvars, fvars>>
    \/ execute /\ UNCHANGED <<wvars, fvars>>
    \/ increaseAllowance /\ UNCHANGED <<wvars, fvars>>
    \/ decreaseAllowance /\ UNCHANGED <<wvars, fvars>>

Spec == Init /\ [][Next]_vars

(***************************************************************************)
(* Properties of the CW1 instance, checked under Spec.                     *)
(***************************************************************************)
Arg(i) == last.args[i]
NoBalance == [d \in Denom |-> 0]

RECURSIVE Spent(_, _)
Spent(msgs, d) ==
    IF msgs = <<>> THEN 0
    ELSE (IF Head(msgs).denom = d THEN Head(msgs).amount ELSE 0) + Spent(Tail(msgs), d)

\* C1: freeze is a one-way latch.  Once a freeze() has been accepted the
\* contract is immutable in every later state, admins() reports mutable =
\* false, every later updateAdmins is rejected and changes nothing, and no
\* call at all turns an immutable contract mutable again.
C1_FreezeIsLatch ==
    /\ ~before.mutable => ~contract.mutable
    /\ froze => ~contract.mutable
    /\ (froze /\ last.op = "updateAdmins") =>
            (last.result = "err" /\ contract = before)
    /\ (froze /\ last.op = "admins") =>
            (last.result = "ok" /\ last.response.mutable = FALSE)

C1_Witness ==
    /\ froze
    /\ last.op = "updateAdmins"
    /\ IsAdmin(contract, senderAddress)
    /\ Arg(1) # contract.admins

\* C3: execute(msgs) sends the whole batch in exactly one execute request,
\* and afterwards either every message has been charged (the call succeeded)
\* or the contract is exactly as it was (the call failed): no part of a
\* batch is ever applied alone.
C3_ExecuteIsAtomic ==
    last.op = "execute" =>
        LET msgs == Arg(1)
            charged(a, d) ==
                IF a = senderAddress /\ ~IsAdmin(before, senderAddress)
                THEN Spent(msgs, d) ELSE 0
        IN  /\ last.wire = <<[to |-> contractAddress, type |-> "execute", msgs |-> msgs]>>
            /\ last.result = "ok" =>
                  /\ contract.admins = before.admins
                  /\ contract.mutable = before.mutable
                  /\ \A a \in Addr, d \in Denom :
                        contract.allowances[a][d] = before.allowances[a][d] - charged(a, d)
            /\ last.result = "err" => contract = before

\* a failed batch of two whose first message alone could have been paid
C3_Witness ==
    /\ last.op = "execute"
    /\ last.result = "err"
    /\ Len(Arg(1)) = 2
    /\ ~IsAdmin(before, senderAddress)
    /\ before.allowances[senderAddress][Arg(1)[1].denom] >= Arg(1)[1].amount

\* C4: a decreaseAllowance of more than the spender's balance for the denom
\* is rejected, and leaves the allowance (the whole contract) as it was; the
\* client sends the request once, as given, without checking it first.
C4_DecreaseBeyondBalanceRejected ==
    (last.op = "decreaseAllowance" /\ Arg(3) > before.allowances[Arg(1)][Arg(2)]) =>
        /\ last.wire = <<[to |-> contractAddress, type |-> "decrease_allowance",
                          spender |-> Arg(1),
                          amount |-> [denom |-> Arg(2), amount |-> Arg(3)],
                          expires |-> Arg(4)]>>
        /\ last.result = "err"
        /\ contract.allowances[Arg(1)] = before.allowances[Arg(1)]
        /\ contract = before

\* an admin asks to take 2 from a balance of 1
C4_Witness ==
    /\ last.op = "decreaseAllowance"
    /\ IsAdmin(before, senderAddress)
    /\ before.allowances[Arg(1)][Arg(2)] = 1
    /\ Arg(3) = 2

\* C5: an accepted updateAdmins(list) replaces the whole admin set: admins()
\* then answers exactly the submitted list, in its order, with mutable still
\* true; the list is sent as given, the empty list included.
C5_UpdateAdminsReplaces ==
    (last.op = "updateAdmins" /\ last.result = "ok") =>
        /\ before.mutable
        /\ last.wire = <<[to |-> contractAddress, type |-> "update_admins",
                          admins |-> Arg(1)]>>
        /\ RemoteQuery(contract, adminsQuery[1]) =
              [ok |-> TRUE, data |-> [admins |-> Arg(1), mutable |-> TRUE]]
        /\ \A a \in Addr : IsAdmin(contract, a) <=> InRange(Arg(1), a)
        /\ contract.allowances = before.allowances

\* the sender was an admin and is replaced: it does not survive
C5_Witness ==
    /\ last.op = "updateAdmins"
    /\ last.result = "ok"
    /\ Arg(1) = <<"a2">>
    /\ IsAdmin(before, senderAddress)
    /\ ~IsAdmin(contract, senderAddress)

\* C6: an accepted increaseAllowance followed at once by an accepted
\* decreaseAllowance of the same spender, denom and amount leaves every
\* balance of every spender, that denom's included, as before the increase;
\* from no grant the balance is zero again.
C6_IncreaseThenDecrease ==
    (roundTrip /\ last.result = "ok") =>
        /\ \A a \in Addr, d \in Denom :
              contract.allowances[a][d] = origin.allowances[a][d]
        /\ origin.allowances[Arg(1)] = NoBalance =>
              RemoteQuery(contract, allowanceQuery(Arg(1))[1]).data.balance = NoBalance
        /\ contract = origin

\* a round trip from no grant while the other spender holds a balance
C6_Witness ==
    /\ roundTrip
    /\ last.result = "ok"
    /\ origin.allowances[Arg(1)] = NoBalance
    /\ \E a \in Addr \ {Arg(1)} : origin.allowances[a] # NoBalance

\* C7: allowance(spender) for a spender increaseAllowance was never called
\* for (the sender itself when the argument is omitted) succeeds with a zero
\* balance, and no allowance query changes the contract.
C7_NoGrantIsZero ==
    last.op = "allowance" =>
        /\ contract = before
        /\ LET spender == IF Arg(1) = Undefined THEN senderAddress ELSE Arg(1)
           IN  (spender \in Addr \ calledInc) =>
                  (last.result = "ok" /\ last.response.balance = NoBalance)

\* the spender asked about has no grant while the sender has one
C7_Witness ==
    /\ last.op = "allowance"
    /\ Arg(1) = "a2"
    /\ "a2" \notin calledInc
    /\ contract.allowances[senderAddress] # NoBalance

\* C8 as stated: the sender's own allowance is queried if and only if the
\* argument is omitted, and a supplied address is queried as it is.
C8_AsStated ==
    last.op = "allowance" =>
        /\ Len(last.wire) = 1
        /\ Arg(1) # Undefined => last.wire[1].spender = Arg(1)
        /\ Arg(1) = Undefined => last.wire[1].spender = senderAddress

\* C8 amended: exactly one allowance query goes to contractAddress; a
\* non-empty address is queried as it is, and the sender's own address
\* stands in when the argument is omitted or is the empty string.
C8_AllowanceSpender ==
    last.op = "allowance" =>
        /\ Len(last.wire) = 1
        /\ last.wire[1].to = contractAddress
        /\ last.wire[1].type = "allowance"
        /\ Arg(1) \in Addr => last.wire[1].spender = Arg(1)
        /\ Arg(1) \in {Undefined, ""} => last.wire[1].spender = senderAddress

C8_Witness ==
    /\ last.op = "allowance"
    /\ Arg(1) = ""
    /\ last.wire[1].spender = senderAddress
    /\ last.result = "ok"

(***************************************************************************)
(* The wallet: useOptions(options).setup / recoverMnemonic over a keyfile. *)
(* Both are async: a call runs to its next await and then gives way, so    *)
(* calls started together interleave between their awaits.  A call is a    *)
(* record whose pc names the await it is waiting at.                       *)
(***************************************************************************)
\* one keyfile: a caller leaves the filename out, passes "", or names the file
defaultKeyFile == "home/.coral.key"
Paths == {defaultKeyFile}
Filenames == {Undefined, "", defaultKeyFile}
Passwords == {"p1", "p2"}
Mnemonics == {"m1", "m2"}
Slots == {1, 2}

\* a file: present with an access mode and a content, or absent; of an
\* absent file the mode tells whether its directory lets it be created
Modes == {"rw", "r", "w", "none"}
Readable(f) == f.exists /\ f.mode \in {"rw", "r"}
Writable(f) == f.exists /\ f.mode \in {"rw", "w"}
Creatable(f) == ~f.exists /\ f.mode = "dir"
Absent == [exists |-> FALSE, mode |-> "dir", content |-> <<"-", "-", "-">>]
Blocked == [exists |-> FALSE, mode |-> "nodir", content |-> <<"-", "-", "-">>]
File(mode, content) == [exists |-> TRUE, mode |-> mode, content |-> content]

\* wallet.serialize(password): the mnemonic under the password;
\* Secp256k1Wallet.deserialize gives it back for that password only.
\* Garbage is a file content that is no serialized wallet at all.
Serialize(mnemonic, password) == <<"wallet", mnemonic, password>>
Garbage == <<"garbage", "-", "-">>
Deserialize(encrypted, password) ==
    IF encrypted[1] = "wallet" /\ encrypted[3] = password
    THEN [ok |-> TRUE, mnemonic |-> encrypted[2]]
    ELSE [ok |-> FALSE, mnemonic |-> "-"]

\* the keyfiles a run starts from
Blobs == {Serialize(m, p) : m \in Mnemonics, p \in Passwords} \cup {Garbage}
InitFiles == {Absent, Blocked} \cup {File(m, c) : m \in Modes, c \in Blobs}

\* fs.readFileSync(filename, 'utf8'): throws unless the file is there and readable
readFileSync(fsys, filename) ==
    IF Readable(fsys[filename])
    THEN [ok |-> TRUE, data |-> fsys[filename].content]
    ELSE [ok |-> FALSE, data |-> <<"-", "-", "-">>]

\* fs.writeFileSync(filename, data, 'utf8'): creates the file where its
\* directory allows it, or replaces the content of a writable file; throws
\* otherwise
writeFileSync(fsys, filename, data) ==
    IF Creatable(fsys[filename])
    THEN [ok |-> TRUE, fs |-> [fsys EXCEPT ![filename] = File("rw", data)]]
    ELSE IF Writable(fsys[filename])
    THEN [ok |-> TRUE, fs |-> [fsys EXCEPT ![filename].content = data]]
    ELSE [ok |-> FALSE, fs |-> fsys]

\* filename || options.defaultKeyFile
KeyFile(filename) == IF Truthy(filename) THEN filename ELSE defaultKeyFile

\* existed: the keyfile was there when the call read it; attempted: the call
\* has called deserialize; wrote: the call has written the keyfile
IdleCall ==
    [pc |-> "idle", op |-> "-", password |-> "-", keyfile |-> "-", faucet |-> FALSE,
     existed |-> FALSE, encrypted |-> <<"-", "-", "-">>, attempted |-> FALSE,
     wrote |-> FALSE, mnemonic |-> "-", result |-> "-"]

Busy(call) == call.pc \notin {"idle", "done"}

\* the call has ended: what it returned or threw, and what it did on the way
Ended(call, result, mnemonic) ==
    [IdleCall EXCEPT !.pc = "done", !.op = call.op, !.result = result,
                     !.mnemonic = mnemonic, !.existed = call.existed,
                     !.attempted = call.attempted, !.wrote = call.wrote]

\* loadOrCreateWallet has returned the wallet: recoverMnemonic returns its
\* mnemonic, setup goes on to connect (await wallet.getAccounts())
Returned(call, mnemonic) ==
    IF call.op = "recoverMnemonic"
    THEN Ended(call, "ok", mnemonic)
    ELSE [call EXCEPT !.pc = "connect", !.mnemonic = mnemonic]

\* loadOrCreateWallet up to its first await: the keyfile is read; a failed
\* read goes to Secp256k1Wallet.generate, a read one to deserialize
loadOrCreateWallet(call, fsys) ==
    LET read == readFileSync(fsys, call.keyfile)
    IN  IF ~read.ok
        THEN [call EXCEPT !.pc = "generate", !.existed = fsys[call.keyfile].exists]
        ELSE [call EXCEPT !.pc = "deserialize", !.existed = TRUE,
                          !.encrypted = read.data, !.attempted = TRUE]

\* deserialize as it would end inside the try: a bad password lands in catch
deserializedInTry(call) ==
    LET wallet == Deserialize(call.encrypted, call.password)
    IN  IF wallet.ok
        THEN Returned(call, wallet.mnemonic)
        ELSE [call EXCEPT !.pc = "generate"]

\* await Secp256k1Wallet.deserialize(encrypted, password) ends: the wallet
\* is returned, or the error leaves loadOrCreateWallet and the call
deserialized(call) ==
    LET wallet == Deserialize(call.encrypted, call.password)
    IN  IF wallet.ok
        THEN Returned(call, wallet.mnemonic)
        ELSE Ended(call, "WalletError", "-")

Start(c, op, password, filename, faucetUrl) ==
    /\ ~Busy(calls[c])
    /\ c = 2 => Busy(calls[1])
    /\ calls' = [calls EXCEPT ![c] =
            loadOrCreateWallet([IdleCall EXCEPT !.op = op, !.password = password,
                                                !.keyfile = KeyFile(filename),
                                                !.faucet = Truthy(faucetUrl)], fs)]
    /\ UNCHANGED <<fs, funded>>

\* setup(password, filename) is called, under options with or without a faucetUrl
setup ==
    \E c \in Slots, password \in Passwords, filename \in Filenames,
       faucetUrl \in {Undefined, "https://faucet"} :
        Start(c, "setup", password, filename, faucetUrl)

\* recoverMnemonic(password, filename) is called
recoverMnemonic ==
    \E c \in Slots, password \in Passwords, filename \in Filenames :
        Start(c, "recoverMnemonic", password, filename, Undefined)

\* await Secp256k1Wallet.generate(...) ends with a new mnemonic;
\* wallet.serialize(password) is awaited next
generateSettles ==
    \E c \in Slots, generated \in Mnemonics :
        /\ calls[c].pc = "generate"
        /\ calls' = [calls EXCEPT ![c].pc = "serialize", ![c].mnemonic = generated]
        /\ UNCHANGED <<fs, funded>>

\* await wallet.serialize(password) ends; the keyfile is written and the
\* wallet returned, or the write throws
serializeSettles ==
    \E c \in Slots :
        LET call == calls[c]
            written == writeFileSync(fs, call.keyfile, Serialize(call.mnemonic, call.password))
        IN  /\ call.pc = "serialize"
            /\ fs' = written.fs
            /\ calls' = [calls EXCEPT ![c] =
                    IF written.ok
                    THEN Returned([call EXCEPT !.wrote = TRUE], call.mnemonic)
                    ELSE Ended(call, "WriteError", "-")]
            /\ UNCHANGED funded

deserializeSettles ==
    \E c \in Slots :
        /\ calls[c].pc = "deserialize"
        /\ calls' = [calls EXCEPT ![c] = deserialized(calls[c])]
        /\ UNCHANGED <<fs, funded>>

\* connect has its client; with a faucetUrl, client.getAccount() is awaited
connectSettles ==
    \E c \in Slots :
        /\ calls[c].pc = "connect"
        /\ calls' = [calls EXCEPT ![c] =
                IF calls[c].faucet THEN [calls[c] EXCEPT !.pc = "getAccount"]
                ELSE Ended(calls[c], "ok", calls[c].mnemonic)]
        /\ UNCHANGED <<fs, funded>>

\* client.getAccount() answers; without an account the faucet is asked
getAccountSettles ==
    \E c \in Slots :
        /\ calls[c].pc = "getAccount"
        /\ calls' = [calls EXCEPT ![c] =
                IF calls[c].mnemonic \in funded
                THEN Ended(calls[c], "ok", calls[c].mnemonic)
                ELSE [calls[c] EXCEPT !.pc = "hitFaucet"]]
        /\ UNCHANGED <<fs, funded>>

\* the faucet's POST ends: the identity is credited, or the error leaves setup
hitFaucetSettles ==
    \E c \in Slots, credited \in BOOLEAN :
        /\ calls[c].pc = "hitFaucet"
        /\ funded' = IF credited THEN funded \cup {calls[c].mnemonic} ELSE funded
        /\ calls' = [calls EXCEPT ![c] =
                Ended(calls[c], IF credited THEN "ok" ELSE "FaucetError",
                      IF credited THEN calls[c].mnemonic ELSE "-")]
        /\ UNCHANGED fs

InitWallet ==
    /\ fs \in [Paths -> InitFiles]
    /\ funded = {}
    /\ calls = [c \in Slots |-> IdleCall]

WalletInit == IdleContract /\ InitWallet /\ IdleFactory

WalletNext ==
    \/ setup /\ UNCHANGED <<cvars, fvars>>
    \/ recoverMnemonic /\ UNCHANGED <<cvars, fvars>>
    \/ generateSettles /\ UNCHANGED <<cvars, fvars>>
    \/ serializeSettles /\ UNCHANGED <<cvars, fvars>>
    \/ deserializeSettles /\ UNCHANGED <<cvars, fvars>>
    \/ connectSettles /\ UNCHANGED <<cvars, fvars>>
    \/ getAccountSettles /\ UNCHANGED <<cvars, fvars>>
    \/ hitFaucetSettles /\ UNCHANGED <<cvars, fvars>>

SpecWallet == WalletInit /\ [][WalletNext]_vars

\* C2: a call that has read the keyfile and gone on to decrypt it never
\* writes: no step of such a call changes any file; and when the password
\* does not decrypt what was read, the call ends there with the error.
C2_BadPasswordKeepsKeyfile ==
    [][\A c \in Slots :
        /\ (calls'[c].attempted /\ calls'[c] # calls[c]) =>
              (fs' = fs /\ ~calls'[c].wrote)
        /\ (/\ calls[c].pc = "deserialize"
            /\ calls'[c] # calls[c]
            /\ ~Deserialize(calls[c].encrypted, calls[c].password).ok) =>
              /\ calls'[c].pc = "done"
              /\ calls'[c].result = "WalletError"
              /\ fs' = fs]_vars

\* a call ended on a bad password while a call started beside it, on the
\* generate path, is still on its way to writing
C2_Witness ==
    \E c \in Slots, d \in Slots :
        /\ calls[c].pc = "done"
        /\ calls[c].result = "WalletError"
        /\ calls[c].attempted
        /\ ~calls[c].wrote
        /\ calls[d].pc = "serialize"
        /\ fs[defaultKeyFile].exists

\* C10: the two paths are keyed on the file's existence: a call generates
\* (and writes) only when the keyfile it read was absent, and a call that
\* found the keyfile present decrypts it and never writes.
C10_PathsKeyedOnExistence ==
    \A c \in Slots :
        calls[c].pc # "idle" =>
            /\ calls[c].existed <=> calls[c].attempted
            /\ calls[c].existed => ~calls[c].wrote

(***************************************************************************)
(* The factory: CW1(client).upload, instantiate and use.                   *)
(* chain.codes are the code blobs the network stores (a code's id is its   *)
(* place in the list), chain.storeTxs counts the code-storage transactions *)
(* the client has submitted, chain.instances are the contracts created.    *)
(***************************************************************************)
HttpOk == 200
Statuses == {HttpOk, 204, 404}
Rejected == 0
meta == [source |-> "tree/v0.1.1/contracts/cw1-subkeys",
         builder |-> "cosmwasm/rust-optimizer:0.10.1"]
Body(status) == IF status = HttpOk THEN "cw1_subkeys.wasm" ELSE "not the artifact"

\* downloadWasm as it would be without the status check
downloadWasmUnchecked(r) == [ok |-> TRUE, data |-> r.data]

\* downloadWasm once axios.get has answered with r: throws unless r.status is 200
downloadWasm(r) ==
    IF r.status # HttpOk
    THEN [ok |-> FALSE, data |-> "-"]
    ELSE [ok |-> TRUE, data |-> r.data]

FCalled(op, status, txs, result, value) ==
    [op |-> op, status |-> status, txs |-> txs, result |-> result, value |-> value]

\* upload() is called: axios.get(sourceUrl) is under way
uploadCall ==
    /\ pc = "idle"
    /\ chain.storeTxs < MaxUploads
    /\ pc' = "downloading"
    /\ resp' = NoResp
    /\ flast' = FCalled("upload", Rejected, 0, "pending", 0)
    /\ UNCHANGED chain

\* axios.get rejects (no answer, or a status its validateStatus refuses):
\* the error leaves upload()
downloadRejects ==
    /\ pc = "downloading"
    /\ pc' = "idle"
    /\ flast' = [flast EXCEPT !.result = "error"]
    /\ UNCHANGED <<resp, chain>>

\* axios.get answers; downloadWasm checks the status and upload() goes on to
\* client.upload(wasm, meta), which submits the code-storage transaction
downloadAnswers ==
    \E status \in Statuses :
        LET r == [settled |-> TRUE, status |-> status, data |-> Body(status)]
            wasm == downloadWasm(r)
        IN  /\ pc = "downloading"
            /\ resp' = r
            /\ IF wasm.ok
               THEN /\ pc' = "uploading"
                    /\ chain' = [chain EXCEPT !.storeTxs = @ + 1]
                    /\ flast' = [flast EXCEPT !.status = status, !.txs = @ + 1]
               ELSE /\ pc' = "idle"
                    /\ flast' = [flast EXCEPT !.status = status, !.result = "error"]
                    /\ UNCHANGED chain

\* client.upload settles: the code is stored and its id returned, or the
\* transaction is refused and the error leaves upload()
uploadSettles ==
    \E stored \in BOOLEAN :
        /\ pc = "uploading"
        /\ pc' = "idle"
        /\ IF stored
           THEN /\ chain' = [chain EXCEPT
                        !.codes = Append(@, [wasm |-> downloadWasm(resp).data, meta |-> meta])]
                /\ flast' = [flast EXCEPT !.result = "ok", !.value = Len(chain.codes) + 1]
           ELSE /\ flast' = [flast EXCEPT !.result = "error"]
                /\ UNCHANGED chain
        /\ UNCHANGED resp

InitMsgs == [admins : {<<>>, <<"a1">>}, mutable : BOOLEAN]

\* instantiate(codeId, initMsg, label, admin): one client.instantiate; the
\* instance is use(result.contractAddress)
instantiate ==
    \E codeId \in 1..(MaxUploads + 1), initMsg \in InitMsgs, admin \in {Undefined, "a1"} :
        /\ pc = "idle"
        /\ Len(chain.instances) < MaxInstances
        /\ IF codeId <= Len(chain.codes)
           THEN /\ chain' = [chain EXCEPT !.instances = Append(@,
                        [codeId |-> codeId, initMsg |-> initMsg, label |-> "My Proxy",
                         memo |-> "Init My Proxy", admin |-> admin])]
                /\ flast' = FCalled("instantiate", Rejected, 0, "ok", Len(chain.instances) + 1)
           ELSE /\ flast' = FCalled("instantiate", Rejected, 0, "error", 0)
                /\ UNCHANGED chain
        /\ UNCHANGED <<pc, resp>>

\* use(contractAddress): binds to any address, without asking the network
use ==
    \E address \in 1..(MaxInstances + 1) :
        /\ pc = "idle"
        /\ flast' = FCalled("use", Rejected, 0, "ok", address)
        /\ UNCHANGED <<pc, resp, chain>>

FactoryInit == IdleContract /\ IdleWallet /\ IdleFactory

FactoryNext ==
    \/ uploadCall /\ UNCHANGED <<cvars, wvars>>
    \/ downloadRejects /\ UNCHANGED <<cvars, wvars>>
    \/ downloadAnswers /\ UNCHANGED <<cvars, wvars>>
    \/ uploadSettles /\ UNCHANGED <<cvars, wvars>>
    \/ instantiate /\ UNCHANGED <<cvars, wvars>>
    \/ use /\ UNCHANGED <<cvars, wvars>>

SpecFactory == FactoryInit /\ [][FactoryNext]_vars

\* C9: upload() downloads before it registers.  While the download is
\* under way nothing has been submitted; a code-storage transaction is
\* submitted only on a 200 answer, and then exactly one; a call whose
\* download did not succeed ends in an error with none submitted; a call
\* that succeeds returns the id of the code its one transaction stored, and
\* a refused registration ends the call in an error after that one
\* transaction, without a second one.
C9_DownloadBeforeRegistration ==
    flast.op = "upload" =>
        /\ pc = "downloading" => (flast.txs = 0 /\ flast.result = "pending")
        /\ pc = "uploading" => (flast.status = HttpOk /\ flast.txs = 1)
        /\ flast.txs \in {0, 1}
        /\ flast.txs = 1 <=> flast.status = HttpOk
        /\ (pc = "idle" /\ flast.status # HttpOk) =>
              (flast.result = "error" /\ flast.txs = 0)
        /\ (pc = "idle" /\ flast.status = HttpOk) =>
              /\ flast.result \in {"ok", "error"}
              /\ flast.result = "ok" =>
                    /\ flast.value = Len(chain.codes)
                    /\ chain.codes[flast.value].wasm = Body(HttpOk)
        /\ Len(chain.codes) <= chain.storeTxs

\* a download answered 204 ended the call, after an earlier call had stored a code
C9_Witness ==
    /\ flast.op = "upload"
    /\ pc = "idle"
    /\ flast.status = 204
    /\ flast.result = "error"
    /\ chain.storeTxs = Len(chain.codes)
    /\ chain.storeTxs = 1

====
